---- MODULE Spec2Model ----
(***************************************************************************)
(* Model of src/handler/embedding.rs: the embeddings_handler request flow  *)
(* (resolve model, read credentials, invoke engine, normalise response),   *)
(* run by several concurrent requests against one shared registry.         *)
(***************************************************************************)
EXTENDS Integers, Sequences, FiniteSets, TLC

\* ---------------------------------------------------------------- bounds
NumRequests == 2          \* requests in flight concurrently
MaxItems == 2             \* longest data sequence the engine returns

Requests == 1..NumRequests

\* ---------------------------------------------------------------- values
\* Option<T> and Result<T, E>
None == [some |-> FALSE]
Some(x) == [some |-> TRUE, value |-> x]
Ok(x) == [ok |-> TRUE, value |-> x]
Err(e) == [ok |-> FALSE, error |-> e]
IsOk(x) == x # None /\ x.ok
IsErr(x) == x # None /\ ~x.ok

\* Model descriptors owned by the registry.
DescriptorX == [model |-> "provider-x/embed-small", provider |-> "provider-x"]
DescriptorY == [model |-> "provider-y/embed-large", provider |-> "provider-y"]

\* AvailableModels as built at configuration load: full name -> descriptor.
\* "px/embed-small" is a second full name of DescriptorX.
AvailableModels ==
    [n \in {"provider-x/embed-small", "px/embed-small",
            "provider-y/embed-large"} |->
        IF n = "provider-y/embed-large" THEN DescriptorY ELSE DescriptorX]

\* Model names a client may submit.
ModelNames == DOMAIN AvailableModels \cup {"unknown/model"}

\* The handler never reads a request's number, so the requests are numbered
\* in the order of the names they submit: one numbering per combination.
NameOrder == <<"provider-x/embed-small", "px/embed-small",
               "provider-y/embed-large", "unknown/model">>
NameRank(name) == CHOOSE i \in 1..Len(NameOrder) : NameOrder[i] = name
InboundRequests ==
    {f \in [Requests -> [model : ModelNames, input : {<<"hello">>}]] :
        \A r, q \in Requests :
            r < q => NameRank(f[r].model) <= NameRank(f[q].model)}

\* The credential bundle the middleware attaches for request r, when it does.
Credentials(r) == [api_key |-> r]

\* GatewayApiError values.
ModelNotFound(name) == [kind |-> "ModelNotFound", model |-> name]
EngineErrors == {[kind |-> "EngineError", cause |-> "network"],
                 [kind |-> "EngineError", cause |-> "authorization"]}

\* Raw embedding items the engine may emit; index is not the position.
RawItems == {[object |-> "embedding", embedding |-> <<11, 12>>, index |-> 1],
             [object |-> "embedding", embedding |-> <<27>>, index |-> 0]}
RawDatas == UNION {[1..n -> RawItems] : n \in 0..MaxItems}
\* The usage counters reported with a data sequence: the two differ, and
\* neither is the number of items.
RawUsage(data) ==
    [prompt_tokens |-> 3 + Len(data), total_tokens |-> 5 + 2 * Len(data)]
RawResults == {[data |-> d, usage |-> RawUsage(d)] : d \in RawDatas}

\* ---------------------------------------------------------------- state
VARIABLES
    models,           \* web::Data<AvailableModels>, shared by all requests
    request,          \* request[r]: the parsed CreateEmbeddingRequest
    extensions,       \* extensions[r]: Option<Credentials> in req.extensions()
    attached,         \* attached[r]: what the middleware put in the context
    pc,               \* pc[r]: position of request r in embeddings_handler
    llm_model,        \* local llm_model of request r
    key_credentials,  \* local key_credentials of request r
    engine_calls,     \* engine_calls[r]: calls of handle_embeddings_invoke
    raw,              \* raw[r]: what the engine answered to request r
    returned,         \* returned[r]: the handler's return value
    stages            \* stages[r]: the stages request r has run, in order

\* What the handler is handed and only reads.
shared == <<models, request, extensions, attached>>

vars == <<models, request, extensions, attached, pc, llm_model, key_credentials,
          engine_calls, raw, returned, stages>>

\* ---------------------------------------------------------------- helpers
\* resolve(fullName, registry): exact match on the full name.
find_model_by_full_name(name, available) ==
    IF name \in DOMAIN available
    THEN Ok(available[name])
    ELSE Err(ModelNotFound(name))

\* The outcomes the engine may produce for one call.
handle_embeddings_invoke(call) ==
    {Ok(res) : res \in RawResults} \cup {Err(e) : e \in EngineErrors}

\* Variant: the bundle is read from a slot all requests share.
ExtractCredentials_Shared(r) ==
    IF \E q \in Requests : extensions[q].some
    THEN extensions[CHOOSE q \in Requests : extensions[q].some]
    ELSE None

\* req.extensions().get::<Credentials>().cloned()
ExtractCredentials(r) == extensions[r]

\* The argument list of the engine call of request r.
InvokeArgs(r) ==
    [request |-> request[r], model |-> llm_model[r],
     credentials |-> key_credentials[r]]

\* Variant: index is assigned from the position in the sequence.
ResponseData_Reindex(result) ==
    [i \in 1..Len(result.data) |->
        [object |-> result.data[i].object,
         embedding |-> result.data[i].embedding,
         index |-> i - 1]]

\* result.data.iter().map(|v| EmbeddingData {..}).collect()
ResponseData(result) ==
    [i \in 1..Len(result.data) |->
        [object |-> result.data[i].object,
         embedding |-> result.data[i].embedding,
         index |-> result.data[i].index]]

\* Variant: the two counters are swapped.
ResponseUsage_Swapped(result) ==
    [prompt_tokens |-> result.usage.total_tokens,
     total_tokens |-> result.usage.prompt_tokens]

\* EmbeddingUsage { prompt_tokens, total_tokens }
ResponseUsage(result) ==
    [prompt_tokens |-> result.usage.prompt_tokens,
     total_tokens |-> result.usage.total_tokens]

\* Variant: the model field echoes the string the client submitted.
CreateEmbeddingResponse_EchoRequest(r, result) ==
    [object |-> "list",
     data |-> ResponseData(result),
     model |-> request[r].model,
     usage |-> ResponseUsage(result)]

\* CreateEmbeddingResponse built by request r from the engine's result.
CreateEmbeddingResponse(r, result) ==
    [object |-> "list",
     data |-> ResponseData(result),
     model |-> llm_model[r].model,
     usage |-> ResponseUsage(result)]

\* ---------------------------------------------------------------- Init
Init ==
    /\ models = AvailableModels
    /\ request \in InboundRequests
    /\ \E S \in SUBSET Requests :
          extensions = [r \in Requests |->
                           IF r \in S THEN Some(Credentials(r)) ELSE None]
    /\ attached = extensions
    /\ pc = [r \in Requests |-> "resolve"]
    /\ llm_model = [r \in Requests |-> None]
    /\ key_credentials = [r \in Requests |-> None]
    /\ engine_calls = [r \in Requests |-> <<>>]
    /\ raw = [r \in Requests |-> None]
    /\ returned = [r \in Requests |-> None]
    /\ stages = [r \in Requests |-> <<>>]

\* ---------------------------------------------------------------- actions
\* Variant: an unregistered name falls back to a default descriptor.
ResolveFail_Fallback(r) ==
    /\ pc[r] = "resolve"
    /\ ~find_model_by_full_name(request[r].model, models).ok
    /\ llm_model' = [llm_model EXCEPT ![r] = DescriptorX]
    /\ pc' = [pc EXCEPT ![r] = "extract"]
    /\ stages' = [stages EXCEPT ![r] = Append(@, "Resolve")]
    /\ UNCHANGED <<shared, key_credentials, engine_calls, raw, returned>>

\* Lines 22-24, find_model_by_full_name(..)? returned Err: the handler ends.
ResolveFail(r) ==
    /\ pc[r] = "resolve"
    /\ LET found == find_model_by_full_name(request[r].model, models)
       IN /\ ~found.ok
          /\ returned' = [returned EXCEPT ![r] = Err(found.error)]
    /\ pc' = [pc EXCEPT ![r] = "done"]
    /\ stages' = [stages EXCEPT ![r] = Append(@, "Resolve")]
    /\ UNCHANGED <<shared, llm_model, key_credentials,
                   engine_calls, raw>>

\* Lines 22-24, find_model_by_full_name(..)? returned Ok(descriptor).
ResolveOk(r) ==
    /\ pc[r] = "resolve"
    /\ LET found == find_model_by_full_name(request[r].model, models)
       IN /\ found.ok
          /\ llm_model' = [llm_model EXCEPT ![r] = found.value]
    /\ pc' = [pc EXCEPT ![r] = "extract"]
    /\ stages' = [stages EXCEPT ![r] = Append(@, "Resolve")]
    /\ UNCHANGED <<shared, key_credentials,
                   engine_calls, raw, returned>>

\* Variant: a context without a bundle is rejected before the invocation.
Extract_RequireCredentials(r) ==
    /\ pc[r] = "extract"
    /\ stages' = [stages EXCEPT ![r] = Append(@, "Extract")]
    /\ IF extensions[r].some
       THEN /\ key_credentials' =
                  [key_credentials EXCEPT ![r] = ExtractCredentials(r)]
            /\ pc' = [pc EXCEPT ![r] = "invoke"]
            /\ UNCHANGED returned
       ELSE /\ returned' =
                  [returned EXCEPT ![r] = Err([kind |-> "Unauthorized"])]
            /\ pc' = [pc EXCEPT ![r] = "done"]
            /\ UNCHANGED key_credentials
    /\ UNCHANGED <<shared, llm_model, engine_calls, raw>>

\* Variant: the bundle is taken out of the context instead of cloned.
Extract_Take(r) ==
    /\ pc[r] = "extract"
    /\ key_credentials' = [key_credentials EXCEPT ![r] = ExtractCredentials(r)]
    /\ extensions' = [extensions EXCEPT ![r] = None]
    /\ pc' = [pc EXCEPT ![r] = "invoke"]
    /\ stages' = [stages EXCEPT ![r] = Append(@, "Extract")]
    /\ UNCHANGED <<models, request, attached, llm_model, engine_calls,
                   raw, returned>>

\* Line 25: read the optional credential bundle of this request's context.
Extract(r) ==
    /\ pc[r] = "extract"
    /\ key_credentials' = [key_credentials EXCEPT ![r] = ExtractCredentials(r)]
    /\ pc' = [pc EXCEPT ![r] = "invoke"]
    /\ stages' = [stages EXCEPT ![r] = Append(@, "Extract")]
    /\ UNCHANGED <<shared, llm_model, engine_calls,
                   raw, returned>>

\* Variant: the engine is entered by one request at a time.
Invoke_Exclusive(r) ==
    /\ pc[r] = "invoke"
    /\ \A q \in Requests : pc[q] # "await"
    /\ engine_calls' = [engine_calls EXCEPT ![r] = Append(@, InvokeArgs(r))]
    /\ pc' = [pc EXCEPT ![r] = "await"]
    /\ stages' = [stages EXCEPT ![r] = Append(@, "Invoke")]
    /\ UNCHANGED <<shared, llm_model, key_credentials, raw, returned>>

\* Lines 27-32: call handle_embeddings_invoke and suspend at the await.
Invoke(r) ==
    /\ pc[r] = "invoke"
    /\ engine_calls' = [engine_calls EXCEPT ![r] = Append(@, InvokeArgs(r))]
    /\ pc' = [pc EXCEPT ![r] = "await"]
    /\ stages' = [stages EXCEPT ![r] = Append(@, "Invoke")]
    /\ UNCHANGED <<shared, llm_model, key_credentials,
                   raw, returned>>

\* Variant: a failed invocation is answered with an empty list response.
AwaitErr_EmptyResponse(r) ==
    /\ pc[r] = "await"
    /\ \E out \in handle_embeddings_invoke(engine_calls[r][Len(engine_calls[r])]) :
          /\ ~out.ok
          /\ raw' = [raw EXCEPT ![r] = out]
          /\ returned' = [returned EXCEPT ![r] =
                 Ok([object |-> "list", data |-> <<>>,
                     model |-> llm_model[r].model,
                     usage |-> [prompt_tokens |-> 0, total_tokens |-> 0]])]
    /\ pc' = [pc EXCEPT ![r] = "done"]
    /\ UNCHANGED <<shared, llm_model, key_credentials, engine_calls, stages>>

\* Variant: a failed invocation is retried.
AwaitErr_Retry(r) ==
    /\ pc[r] = "await"
    /\ \E out \in handle_embeddings_invoke(engine_calls[r][Len(engine_calls[r])]) :
          /\ ~out.ok
          /\ raw' = [raw EXCEPT ![r] = out]
    /\ pc' = [pc EXCEPT ![r] = "invoke"]
    /\ UNCHANGED <<shared, llm_model, key_credentials, engine_calls,
                   returned, stages>>

\* Line 33, the await yields Err(e): `?` returns it from the handler.
AwaitErr(r) ==
    /\ pc[r] = "await"
    /\ \E out \in handle_embeddings_invoke(engine_calls[r][Len(engine_calls[r])]) :
          /\ ~out.ok
          /\ raw' = [raw EXCEPT ![r] = out]
          /\ returned' = [returned EXCEPT ![r] = Err(out.error)]
    /\ pc' = [pc EXCEPT ![r] = "done"]
    /\ UNCHANGED <<shared, llm_model, key_credentials,
                   engine_calls, stages>>

\* Lines 33-53, the await yields Ok(result): normalise and return Ok.
AwaitOk(r) ==
    /\ pc[r] = "await"
    /\ \E out \in handle_embeddings_invoke(engine_calls[r][Len(engine_calls[r])]) :
          /\ out.ok
          /\ raw' = [raw EXCEPT ![r] = out]
          /\ returned' = [returned EXCEPT ![r] =
                             Ok(CreateEmbeddingResponse(r, out.value))]
    /\ pc' = [pc EXCEPT ![r] = "done"]
    /\ stages' = [stages EXCEPT ![r] = Append(@, "Normalize")]
    /\ UNCHANGED <<shared, llm_model, key_credentials,
                   engine_calls>>

\* One step of embeddings_handler for request r.
embeddings_handler(r) ==
    \/ ResolveFail(r)
    \/ ResolveOk(r)
    \/ Extract(r)
    \/ Invoke(r)
    \/ AwaitErr(r)
    \/ AwaitOk(r)

Next == \E r \in Requests : embeddings_handler(r)

Spec == Init /\ [][Next]_vars

\* ---------------------------------------------------------------- claims
Registered(r) == request[r].model \in DOMAIN AvailableModels
StageOrder == <<"Resolve", "Extract", "Invoke", "Normalize">>
IsPrefix(s, t) == Len(s) <= Len(t) /\ \A i \in 1..Len(s) : s[i] = t[i]

\* What request r returns when it runs alone: a function of its own request,
\* the registry and the engine's answer to it.
AloneOutcome(req, answer) ==
    IF req.model \notin DOMAIN AvailableModels
    THEN Err(ModelNotFound(req.model))
    ELSE IF ~answer.ok
         THEN Err(answer.error)
         ELSE Ok([object |-> "list",
                  data |-> answer.value.data,
                  model |-> AvailableModels[req.model].model,
                  usage |-> answer.value.usage])

\* C1: a request whose model name is not registered never reaches the engine
\* and, once ended, has returned ModelNotFound; a request whose name is
\* registered resolves to exactly the descriptor registered under that name.
C1_Resolution ==
    \A r \in Requests :
        /\ ~Registered(r) =>
              /\ engine_calls[r] = <<>>
              /\ pc[r] \in {"resolve", "done"}
              /\ pc[r] = "done" =>
                    returned[r] = Err(ModelNotFound(request[r].model))
        /\ Registered(r) /\ pc[r] # "resolve" =>
              /\ llm_model[r] = AvailableModels[request[r].model]
              /\ \A i \in 1..Len(engine_calls[r]) :
                    engine_calls[r][i].model = AvailableModels[request[r].model]

C1_Witness ==
    \E r, q \in Requests :
        /\ ~Registered(r) /\ pc[r] = "done"
        /\ request[q].model = "provider-y/embed-large"
        /\ Len(engine_calls[q]) = 1

\* C2: after a successful invocation the response's data has the length of
\* the engine's raw data and the same (object, embedding, index) at every
\* position.
C2_DataVerbatim ==
    \A r \in Requests :
        (raw[r] # None /\ raw[r].ok) =>
            /\ IsOk(returned[r])
            /\ Len(returned[r].value.data) = Len(raw[r].value.data)
            /\ \A i \in 1..Len(raw[r].value.data) :
                  /\ returned[r].value.data[i].object =
                         raw[r].value.data[i].object
                  /\ returned[r].value.data[i].embedding =
                         raw[r].value.data[i].embedding
                  /\ returned[r].value.data[i].index =
                         raw[r].value.data[i].index

C2_Witness ==
    \E r \in Requests :
        /\ IsOk(returned[r])
        /\ Len(returned[r].value.data) = 2
        /\ returned[r].value.data[1].index = 1
        /\ returned[r].value.data[2].index = 0
        /\ returned[r].value.data[1].embedding = <<11, 12>>

\* C3: a successful response carries the canonical name of the resolved
\* descriptor, and two requests resolving to the same descriptor carry the
\* same model field whatever strings they submitted.
C3_CanonicalModel ==
    /\ \A r \in Requests :
          IsOk(returned[r]) =>
              returned[r].value.model = AvailableModels[request[r].model].model
    /\ \A r, q \in Requests :
          (/\ IsOk(returned[r]) /\ IsOk(returned[q])
           /\ llm_model[r] = llm_model[q]) =>
              returned[r].value.model = returned[q].value.model

C3_Witness ==
    \E r, q \in Requests :
        /\ IsOk(returned[r]) /\ IsOk(returned[q])
        /\ request[r].model = "px/embed-small"
        /\ request[q].model = "provider-x/embed-small"
        /\ returned[r].value.model # request[r].model

\* C4: a successful response's usage counters are the engine's raw counters,
\* each in its own field.
C4_UsageVerbatim ==
    \A r \in Requests :
        IsOk(returned[r]) =>
            /\ returned[r].value.usage.prompt_tokens =
                   raw[r].value.usage.prompt_tokens
            /\ returned[r].value.usage.total_tokens =
                   raw[r].value.usage.total_tokens

C4_Witness ==
    \E r \in Requests :
        /\ IsOk(returned[r])
        /\ returned[r].value.usage.prompt_tokens = 5
        /\ returned[r].value.usage.total_tokens = 9

\* C5: a request with a registered model and no credential bundle is not
\* ended before the invocation: it can always take its next step up to the
\* engine call, the call carries no credentials, and an error it returns is
\* the engine's.
C5_NoBundleReachesEngine ==
    \A r \in Requests :
        (Registered(r) /\ attached[r] = None) =>
            /\ pc[r] \in {"resolve", "extract", "invoke"} =>
                  returned[r] = None /\ ENABLED embeddings_handler(r)
            /\ pc[r] \in {"await", "done"} =>
                  /\ Len(engine_calls[r]) = 1
                  /\ engine_calls[r][1].credentials = None
            /\ IsErr(returned[r]) =>
                  /\ raw[r] # None /\ ~raw[r].ok
                  /\ returned[r].error = raw[r].error

C5_Witness ==
    \E r \in Requests :
        /\ Registered(r) /\ attached[r] = None
        /\ pc[r] = "done"
        /\ returned[r] = Err([kind |-> "EngineError", cause |-> "authorization"])

\* C6: a failed invocation ends the request with the engine's error itself;
\* an ended request has returned either an error or a response built from a
\* successful raw result, and a request that has not ended has returned
\* nothing.
C6_ErrorOrResponse ==
    \A r \in Requests :
        /\ (raw[r] # None /\ ~raw[r].ok) => returned[r] = Err(raw[r].error)
        /\ pc[r] = "done" <=> returned[r] # None
        /\ IsOk(returned[r]) =>
              /\ raw[r] # None /\ raw[r].ok
              /\ returned[r].value.object = "list"
              /\ DOMAIN returned[r].value = {"object", "data", "model", "usage"}
        /\ IsErr(returned[r]) =>
              \/ returned[r].error = ModelNotFound(request[r].model)
              \/ returned[r].error \in EngineErrors

C6_Witness ==
    \E r, q \in Requests :
        /\ raw[r] = Err([kind |-> "EngineError", cause |-> "network"])
        /\ IsErr(returned[r])
        /\ IsOk(returned[q])

\* C7: the stages a request has run are a prefix of Resolve, Extract, Invoke,
\* Normalize; the engine is called at most once and only after Resolve and
\* Extract; a request that has returned takes no further step, and a failed
\* one stopped at Resolve or at Invoke.
C7_LinearStages ==
    \A r \in Requests :
        /\ IsPrefix(stages[r], StageOrder)
        /\ Len(engine_calls[r]) <= 1
        /\ Len(engine_calls[r]) = 1 => Len(stages[r]) >= 3
        /\ returned[r] # None =>
              pc[r] = "done" /\ ~ENABLED embeddings_handler(r)
        /\ IsErr(returned[r]) =>
              stages[r] \in {<<"Resolve">>, <<"Resolve", "Extract", "Invoke">>}
        /\ IsOk(returned[r]) => stages[r] = StageOrder

C7_Witness ==
    \E r, q \in Requests :
        /\ IsOk(returned[r]) /\ stages[r] = StageOrder
        /\ IsErr(returned[q]) /\ stages[q] = <<"Resolve", "Extract", "Invoke">>

\* C8: whatever the interleaving, a request that has not ended can take its
\* next step, its engine call is made from its own request and context, and
\* what it returns is what it returns when run alone.
C8_Independent ==
    \A r \in Requests :
        /\ pc[r] # "done" => ENABLED embeddings_handler(r)
        /\ \A i \in 1..Len(engine_calls[r]) :
              engine_calls[r][i] =
                  [request |-> request[r],
                   model |-> AvailableModels[request[r].model],
                   credentials |-> attached[r]]
        /\ pc[r] = "done" => returned[r] = AloneOutcome(request[r], raw[r])

C8_Witness ==
    \E r, q \in Requests :
        /\ r # q
        /\ pc[r] = "await"
        /\ pc[q] = "done" /\ IsOk(returned[q])
        /\ request[r] = request[q]

\* C9: the registry holds the descriptors it held at construction and each
\* request's context holds what the middleware attached.
C9_ReadOnly ==
    /\ models = AvailableModels
    /\ extensions = attached

C9_Witness ==
    \E r, q \in Requests :
        /\ IsOk(returned[r]) /\ attached[r] # None
        /\ IsErr(returned[q])

\* C10: every engine call of a request carries exactly the bundle attached
\* to that request's context, or none when the context has none.
C10_OwnCredentials ==
    \A r \in Requests :
        /\ \A i \in 1..Len(engine_calls[r]) :
              engine_calls[r][i].credentials = attached[r]
        /\ pc[r] \in {"invoke", "await", "done"} /\ Registered(r) =>
              key_credentials[r] = attached[r]

C10_Witness ==
    \E r, q \in Requests :
        /\ pc[r] = "await" /\ pc[q] = "await"
        /\ engine_calls[r][1].credentials = Some(Credentials(r))
        /\ engine_calls[q][1].credentials = None

====
